---------------------------- MODULE Spec2Model ----------------------------
(***************************************************************************)
(* Model of caspark/macroquad's pixel-art demo code:                       *)
(*   src/src/capture.rs    ScreenCapture (begin_capture / save_frame /     *)
(*                         end_capture) over a file system and a wall      *)
(*                         clock                                           *)
(*   src/examples/pp.rs    the "Pixel Perfect" frame loop: scale keys,     *)
(*                         camera, canvas sizing, render target, pointer   *)
(*                         mapping, sampling uniform                       *)
(*   src/examples/pi.rs    the same loop drawing straight to the window    *)
(***************************************************************************)
EXTENDS Integers, Sequences, FiniteSets, TLC

(***************************************************************************)
(* Bounds of the model.                                                    *)
(***************************************************************************)
\* number of ScreenCapture values constructed in one run
MaxSessions == 2
\* cap on frame_number (a usize in the code)
MaxFrames == 2
\* the wall clock runs over 0..MaxClock milliseconds
MaxClock == 1

(***************************************************************************)
(* State of the capture model.                                             *)
(*   clock     wall-clock time in milliseconds since the epoch             *)
(*   dirs      the capture directories that exist ("capture/<ms>/frames/") *)
(*   files     the frame files: <<dir, n, writer>> is "<dir>/<n>.png" as   *)
(*             last written by session writer                              *)
(*   sessions  the ScreenCapture values constructed so far, in order       *)
(*   ended     per session: end_capture has been called on it              *)
(*   failed    per session: some export_png call of it failed              *)
(*   crashed   the process has panicked                                    *)
(*   lastOp    the last call made and what came of it                      *)
(***************************************************************************)
VARIABLES clock, dirs, files, sessions, ended, failed, crashed, lastOp

capVars == <<clock, dirs, files, sessions, ended, failed, crashed, lastOp>>


SessionIds == 1..Len(sessions)

\* the indices n for which "<dir>/<n>.png" exists
FramesIn(dir) == {f[2] : f \in {g \in files : g[1] = dir}}

(***************************************************************************)
(* capture.rs                                                              *)
(***************************************************************************)
\* lines 18-25: the directory name is the millisecond timestamp
capture_dir(now_ms) == now_ms

\* lines 29-32: the value begin_capture returns
new_capture(dir) == [frame_number |-> 0, dir |-> dir]

\* lines 36-40: the file save_frame writes
filename(self) == <<self.dir, self.frame_number>>

\* line 43: self.frame_number += 1, reached whenever export_png returns
after_save(self) == [self EXCEPT !.frame_number = self.frame_number + 1]

\* end_capture as it would be if it also reset the counter for a next run
after_end_reset(self) == [self EXCEPT !.frame_number = 0]

\* lines 46-51: end_capture only logs; self is left as it is
after_end(self) == self

\* Image::export_png(path): writes the file, replacing one of the same name.
\* Its body is not in src/; a failed write leaves the file system alone.
export_png(path, writer, io) ==
    IF io = "ok"
    THEN {f \in files : <<f[1], f[2]>> # path} \cup {<<path[1], path[2], writer>>}
    ELSE files

\* a failed export_png reports the failure to its caller and does not end the
\* process; save_frame, at line 41, discards whatever export_png returns
ExportOutcomes == {"ok", "fail"}

CapInit ==
    /\ clock = 0
    /\ dirs = {}
    /\ files = {}
    /\ sessions = <<>>
    /\ ended = <<>>
    /\ failed = <<>>
    /\ crashed = FALSE
    /\ lastOp = [op |-> "none"]

\* the wall clock advances by a millisecond
Tick ==
    /\ ~crashed
    /\ clock < MaxClock
    /\ clock' = clock + 1
    /\ lastOp' = [op |-> "tick"]
    /\ UNCHANGED <<dirs, files, sessions, ended, failed, crashed>>

\* ScreenCapture::begin_capture(), lines 16-33; fs_ok: create_dir_all succeeds
begin_capture(fs_ok) ==
    /\ ~crashed
    /\ Len(sessions) < MaxSessions
    /\ LET dir == capture_dir(clock) IN
       IF fs_ok
       THEN /\ dirs' = dirs \cup {dir}
            /\ sessions' = Append(sessions, new_capture(dir))
            /\ ended' = Append(ended, FALSE)
            /\ failed' = Append(failed, FALSE)
            /\ crashed' = FALSE
            /\ lastOp' = [op |-> "begin_capture", fs_ok |-> TRUE,
                          sid |-> Len(sessions) + 1, result |-> "session"]
       ELSE \* line 26: .expect("failed to create capture dir") panics
            /\ crashed' = TRUE
            /\ lastOp' = [op |-> "begin_capture", fs_ok |-> FALSE,
                          sid |-> 0, result |-> "panic"]
            /\ UNCHANGED <<dirs, sessions, ended, failed>>
    /\ UNCHANGED <<clock, files>>

\* ScreenCapture::save_frame(&mut self, data), lines 35-44
save_frame(s, io) ==
    /\ ~crashed
    /\ s \in SessionIds
    /\ sessions[s].frame_number < MaxFrames
    /\ files' = export_png(filename(sessions[s]), s, io)
    /\ sessions' = [sessions EXCEPT ![s] = after_save(sessions[s])]
    /\ failed' = [failed EXCEPT ![s] = @ \/ io # "ok"]
    /\ lastOp' = [op |-> "save_frame", sid |-> s, io |-> io,
                  was_ended |-> ended[s],
                  result |-> "unit"]
    /\ UNCHANGED <<clock, dirs, ended, crashed>>

\* ScreenCapture::end_capture(&mut self), lines 46-51
end_capture(s) ==
    /\ ~crashed
    /\ s \in SessionIds
    /\ sessions' = [sessions EXCEPT ![s] = after_end(sessions[s])]
    /\ ended' = [ended EXCEPT ![s] = TRUE]
    /\ lastOp' = [op |-> "end_capture", sid |-> s, was_ended |-> ended[s],
                  result |-> "unit"]
    /\ UNCHANGED <<clock, dirs, files, failed, crashed>>


(***************************************************************************)
(* f32 arithmetic of the two demos (examples/pp.rs, examples/pi.rs).       *)
(*                                                                         *)
(* A camera coordinate is an f32; the model holds it as the integer number *)
(* of 2^-27 pixels it is (0.1f32 is 13421773 * 2^-27 exactly).  Every value *)
(* the camera code computes from such numbers is again a multiple of 2^-27, *)
(* so the only rounding is the one to the 24-bit significand, F32Round.    *)
(* The range is |x| < 16 pixels.                                           *)
(***************************************************************************)
F32One == 2^27

Abs(n) == IF n < 0 THEN -n ELSE n

\* the spacing of the f32 values around n (n in units of 2^-27): 1 below
\* 2^24 units, doubling with every binade above
F32Quantum(n) ==
    LET a == Abs(n)
    IN  IF a < 16777216 THEN 1
        ELSE IF a < 33554432 THEN 2
        ELSE IF a < 67108864 THEN 4
        ELSE IF a < 134217728 THEN 8
        ELSE IF a < 268435456 THEN 16
        ELSE IF a < 536870912 THEN 32
        ELSE IF a < 1073741824 THEN 64
        ELSE 128

\* round to nearest f32, ties to even
F32Round(n) ==
    LET q  == F32Quantum(n)
        lo == (n \div q) * q
        r  == n - lo
    IN  IF 2 * r < q THEN lo
        ELSE IF 2 * r > q THEN lo + q
        ELSE IF (lo \div q) % 2 = 0 THEN lo ELSE lo + q

F32Add(a, b) == F32Round(a + b)

F32Sub(a, b) == F32Round(a - b)

\* f32 * f32 where the second factor is the (small, whole) scale
F32MulScale(a, s) == F32Round(a * s)

\* f32::floor, exact
F32Floor(n) == (n \div F32One) * F32One

\* f32::round: to the nearest whole number, halves away from zero
F32RoundHalfAway(n) ==
    IF n >= 0 THEN ((n + F32One \div 2) \div F32One) * F32One
    ELSE -(((-n + F32One \div 2) \div F32One) * F32One)

\* `as i32` of an f32 (Vec2::as_ivec2): truncation toward zero, a whole number
F32ToInt(n) == IF n >= 0 THEN n \div F32One ELSE -((-n) \div F32One)

\* i32 -> f32 (IVec2::as_vec2)
IntToF32(i) == i * F32One


(***************************************************************************)
(* Window quantities (resolution, canvas size, pointer) are f32 too; the   *)
(* model holds them in units of 2^-10 device pixels.  With whole or half   *)
(* pixel inputs and the scales the demos reach, every product, remainder   *)
(* and quotient below is exact in f32 and in these units.                  *)
(***************************************************************************)
PxOne == 2^10

\* f32::floor of a window quantity
PxFloor(v) == (v \div PxOne) * PxOne

\* `as u32` of a non-negative f32: the whole part
PxToU32(v) == IF v <= 0 THEN 0 ELSE v \div PxOne

(***************************************************************************)
(* Bounds of the frame-loop model.                                         *)
(***************************************************************************)
\* scale is not raised above MaxScale
MaxScale == 8
\* the camera keys move the camera at most this many steps of camera_speed
\* from the origin: in pp.rs (steps of 0.1) and in pi.rs (steps of 1.1)
MaxCamSteps == 3
MaxCamStepsPi == 1
\* frames spent in the scripted orbit
MaxOrbitFrames == 2
\* keys pressed in one frame
MaxKeys == 2

(***************************************************************************)
(* Program constants.                                                      *)
(***************************************************************************)
VIRTUAL_WIDTH == 1280
VIRTUAL_HEIGHT == 720
\* let mut scale = 4.0
InitialScale == 4
\* pp.rs: let camera_speed = 0.1  (0.1f32 = 13421773 * 2^-27)
pp_camera_speed == 13421773
\* pi.rs: let camera_speed = 1.1  (1.1f32 = 9227469 * 2^-23)
pi_camera_speed == 147639504

(***************************************************************************)
(* State of the frame loop (the locals of main that live across frames).   *)
(*   demo                       which example runs: "pp" or "pi"           *)
(*   scale                      the scale factor                           *)
(*   last_res_and_scale         <<res, scale>> recorded at the frame's end *)
(*   camera_offset_ideal        <<x, y>>, f32 units                        *)
(*   freelook, use_shader, keep_camera_pixel_aligned    the toggles        *)
(*   camera_angle               number of orbit frames so far: the angle   *)
(*                              is that many times PI * dt                 *)
(*   render_targ                <<width, height>> of the render target     *)
(*   u_sampleProperties         the material's uniform as last set         *)
(*   out                        what the last frame computed and drew      *)
(* timer, which only places the decorations drawn, is left out.            *)
(***************************************************************************)
VARIABLES demo, scale, last_res_and_scale, camera_offset_ideal, freelook,
          use_shader, keep_camera_pixel_aligned, camera_angle, render_targ,
          u_sampleProperties, out

frameVars == <<demo, scale, last_res_and_scale, camera_offset_ideal, freelook,
               use_shader, keep_camera_pixel_aligned, camera_angle,
               render_targ, u_sampleProperties, out>>

Keys == {"Equal", "Minus", "W", "S", "A", "D", "R", "F", "P", "V"}

\* the keys of the reset and freelook handlers; a frame records which of them
\* were pressed in it
HandledKeys == {"R", "F"}

\* the scale keys of pp.rs with the Minus key tried first
pp_scale_keys_minus_first(sc, ks) ==
    IF "Minus" \in ks /\ sc > 1 THEN sc \div 2
    ELSE IF "Equal" \in ks THEN sc * 2
    ELSE sc

\* pp.rs lines 125-131
pp_scale_keys(sc, ks) ==
    IF "Equal" \in ks THEN sc * 2
    ELSE IF "Minus" \in ks /\ sc > 1 THEN sc \div 2
    ELSE sc

\* pi.rs lines 138-152
pi_scale_keys(sc, ks) ==
    IF "Equal" \in ks
    THEN IF sc >= 4 THEN sc * 2 ELSE sc + 1
    ELSE IF "Minus" \in ks /\ sc > 1
         THEN IF sc >= 4 THEN sc \div 2 ELSE sc - 1
         ELSE sc

\* the camera keys without the reset
camera_keys_no_reset(ideal, ks, speed) ==
    LET y == IF "W" \in ks THEN F32Sub(ideal[2], speed)
             ELSE IF "S" \in ks THEN F32Add(ideal[2], speed)
             ELSE ideal[2]
        x == IF "A" \in ks THEN F32Sub(ideal[1], speed)
             ELSE IF "D" \in ks THEN F32Add(ideal[1], speed)
             ELSE ideal[1]
    IN  <<x, y>>

\* pp.rs lines 136-148, pi.rs lines 157-169: W/S, A/D, then R
camera_keys(ideal, ks, speed) ==
    LET y == IF "W" \in ks THEN F32Sub(ideal[2], speed)
             ELSE IF "S" \in ks THEN F32Add(ideal[2], speed)
             ELSE ideal[2]
        x == IF "A" \in ks THEN F32Sub(ideal[1], speed)
             ELSE IF "D" \in ks THEN F32Add(ideal[1], speed)
             ELSE ideal[1]
    IN  IF "R" \in ks THEN <<0, 0>> ELSE <<x, y>>

\* pp.rs lines 159-160: vec2(-10, -10) + Vec2::from_angle(a).rotate(vec2(5, 5))
\* for a = 0, PI*dt, 2*PI*dt, ... (each step and product rounded to f32)
pp_orbit ==
    << <<-671088640, -671088640>>, <<-707130432, -636886336>>,
       <<-744912768, -604617088>>, <<-784332288, -574369408>>,
       <<-825280704, -546226368>>, <<-867646016, -520264896>> >>

\* pi.rs lines 189-191: -displacement + Vec2::from_angle(a).rotate(displacement)
\* with displacement = (50, 50)
pi_orbit ==
    << <<0, 0>>, <<-360417792, 342023680>>, <<-738241536, 664716288>>,
       <<-1132435968, 967192064>>, <<-1541920768, 1248623616>>,
       <<-1965573120, 1508237312>> >>

\* the remainders with the two axes mixed up
leftover_pixels_swapped(res, sc) ==
    <<res[2] % (sc * PxOne), res[1] % (sc * PxOne)>>

\* pp.rs line 166, pi.rs line 197: vec2(res.x % scale, res.y % scale)
leftover_pixels(res, sc) ==
    <<res[1] % (sc * PxOne), res[2] % (sc * PxOne)>>

\* the canvas without the extra pixel
pp_canvas_size_trimmed(res, leftover, sc) ==
    <<(res[1] - leftover[1]) \div sc, (res[2] - leftover[2]) \div sc>>

\* pp.rs lines 169-170
pp_canvas_size(res, leftover, sc) ==
    <<(res[1] - leftover[1]) \div sc + PxOne,
      (res[2] - leftover[2]) \div sc + PxOne>>

\* pi.rs lines 200-201
pi_canvas_size(res, leftover, sc) == res

\* pp.rs line 165, pi.rs line 196
res_changed(res, sc) ==
    res # last_res_and_scale[1] \/ last_res_and_scale[2] # sc

\* pp.rs line 173, pi.rs line 204: render_target(canvas_size.x as u32, ...)
new_render_target(canvas) == <<PxToU32(canvas[1]), PxToU32(canvas[2])>>

\* the camera offset used as it is, without alignment
pixel_aligned_none(ideal) == ideal

\* alignment by rounding to the nearest whole pixel
pixel_aligned_round(ideal) ==
    <<F32RoundHalfAway(ideal[1]), F32RoundHalfAway(ideal[2])>>

\* pp.rs line 181, pi.rs line 212: camera_offset_ideal.floor()
pixel_aligned(ideal) == <<F32Floor(ideal[1]), F32Floor(ideal[2])>>

\* pp.rs lines 195-198
virtual_mouse_pos_exact(mouse, res, canvas, sc) ==
    <<(mouse[1] - (res[1] - canvas[1] * sc) \div 2) \div sc,
      (mouse[2] - (res[2] - canvas[2] * sc) \div 2) \div sc>>

\* the difference without the truncation to whole device pixels
sample_diff_untruncated(ideal, aligned, sc) ==
    <<F32MulScale(F32Sub(ideal[1], aligned[1]), sc),
      F32MulScale(F32Sub(ideal[2], aligned[2]), sc)>>

\* pp.rs lines 285-287:
\* ((camera_offset_ideal - camera_offset_pixel_aligned) * scale).as_ivec2().as_vec2()
sample_diff(ideal, aligned, sc) ==
    <<IntToF32(F32ToInt(F32MulScale(F32Sub(ideal[1], aligned[1]), sc))),
      IntToF32(F32ToInt(F32MulScale(F32Sub(ideal[2], aligned[2]), sc)))>>

\* pp.rs line 290: [0.0, 0.0, diff.x, 1.0 - diff.y]
sample_properties(diff) == <<0, 0, diff[1], F32Sub(F32One, diff[2])>>

\* pp.rs line 299: dest_size of the render target's draw, at (0, 0)
dest_size(canvas, sc) == <<canvas[1] * sc, canvas[2] * sc>>

\* a coordinate the camera keys moved stays within the model's range
CamInRange(old, new, speed, steps) ==
    \A i \in 1..2 :
        new[i] # old[i] => Abs(new[i]) <= steps * speed + speed \div 2

FrameInit ==
    /\ scale = InitialScale
    /\ last_res_and_scale = <<<<0, 0>>, InitialScale>>
    /\ camera_offset_ideal = <<0, 0>>
    /\ freelook = TRUE
    /\ use_shader = TRUE
    /\ keep_camera_pixel_aligned = TRUE
    /\ camera_angle = 0
    /\ render_targ = <<VIRTUAL_WIDTH, VIRTUAL_HEIGHT>>
    /\ u_sampleProperties = <<0, 0, 0, 0>>
    /\ out = [drawn |-> FALSE]

\* one iteration of pp.rs's loop (lines 122-327): ks the keys pressed, res
\* the window resolution, mouse the pointer position
pp_frame(ks, res, mouse) ==
    LET sc       == pp_scale_keys(scale, ks)
        keyed    == camera_keys(camera_offset_ideal, ks, pp_camera_speed)
        fl       == IF "F" \in ks THEN ~freelook ELSE freelook
        sh       == IF "P" \in ks THEN ~use_shader ELSE use_shader
        ideal    == IF fl THEN keyed ELSE pp_orbit[camera_angle + 1]
        changed  == res_changed(res, sc)
        leftover == leftover_pixels(res, sc)
        canvas   == pp_canvas_size(res, leftover, sc)
        aligned  == pixel_aligned(ideal)
        diff     == sample_diff(ideal, aligned, sc)
    IN  /\ demo = "pp"
        /\ sc <= MaxScale
        /\ CamInRange(camera_offset_ideal, keyed, pp_camera_speed, MaxCamSteps)
        /\ fl \/ camera_angle < MaxOrbitFrames
        /\ scale' = sc
        /\ freelook' = fl
        /\ use_shader' = sh
        /\ camera_offset_ideal' = ideal
        /\ camera_angle' = IF fl THEN camera_angle ELSE camera_angle + 1
        /\ render_targ' = IF changed THEN new_render_target(canvas)
                          ELSE render_targ
        /\ u_sampleProperties' = IF sh THEN sample_properties(diff)
                                 ELSE u_sampleProperties
        /\ out' = [drawn |-> TRUE, keys |-> ks \cap HandledKeys, res |-> res,
                   res_changed |-> changed,
                   leftover_pixels |-> leftover, canvas_size |-> canvas,
                   camera_offset_pixel_aligned |-> aligned,
                   camera_pos |-> aligned,
                   mouse_position |-> mouse,
                   virtual_mouse_pos_exact |->
                       virtual_mouse_pos_exact(mouse, res, canvas, sc),
                   material |-> sh,
                   dest_pos |-> <<0, 0>>, dest_size |-> dest_size(canvas, sc)]
        /\ last_res_and_scale' = <<res, sc>>
        /\ UNCHANGED <<demo, keep_camera_pixel_aligned>>
        /\ UNCHANGED capVars

\* one iteration of pi.rs's loop (lines 135-429); the scene is drawn straight
\* to the window through a camera at the aligned or the ideal offset
pi_frame(ks, res, mouse) ==
    LET sc       == pi_scale_keys(scale, ks)
        keyed    == camera_keys(camera_offset_ideal, ks, pi_camera_speed)
        fl       == IF "F" \in ks THEN ~freelook ELSE freelook
        sh       == IF "P" \in ks THEN ~use_shader ELSE use_shader
        keep     == IF "V" \in ks THEN ~keep_camera_pixel_aligned
                    ELSE keep_camera_pixel_aligned
        ideal    == IF fl THEN keyed ELSE pi_orbit[camera_angle + 1]
        changed  == res_changed(res, sc)
        leftover == leftover_pixels(res, sc)
        canvas   == pi_canvas_size(res, leftover, sc)
        aligned  == pixel_aligned(ideal)
    IN  /\ demo = "pi"
        /\ sc <= MaxScale
        /\ CamInRange(camera_offset_ideal, keyed, pi_camera_speed, MaxCamStepsPi)
        /\ fl \/ camera_angle < MaxOrbitFrames
        /\ scale' = sc
        /\ freelook' = fl
        /\ use_shader' = sh
        /\ keep_camera_pixel_aligned' = keep
        /\ camera_offset_ideal' = ideal
        /\ camera_angle' = IF fl THEN camera_angle ELSE camera_angle + 1
        /\ render_targ' = IF changed THEN new_render_target(canvas)
                          ELSE render_targ
        /\ out' = [drawn |-> TRUE, keys |-> ks \cap HandledKeys, res |-> res,
                   res_changed |-> changed,
                   leftover_pixels |-> leftover, canvas_size |-> canvas,
                   camera_offset_pixel_aligned |-> aligned,
                   camera_pos |-> IF keep THEN aligned ELSE ideal,
                   material |-> sh]
        /\ last_res_and_scale' = <<res, sc>>
        /\ UNCHANGED <<demo, u_sampleProperties>>
        /\ UNCHANGED capVars

(***************************************************************************)
(* Inputs of the frame loop.                                               *)
(***************************************************************************)
\* the keys of the camera runs and of the window runs
CamKeys == {"Equal", "Minus", "W", "S", "A", "D", "R", "F"}

WinKeys == {"Equal", "Minus", "P", "V"}

\* at most MaxKeys keys at once
KeyCombos(keys) == {ks \in SUBSET keys : Cardinality(ks) <= MaxKeys}

CamKeyCombos == KeyCombos(CamKeys)

WinKeyCombos == KeyCombos(WinKeys)

\* window resolutions, in 2^-10 pixels: empty, whole and half pixel sizes
ResSet == {<<0, 0>>, <<8 * PxOne, 6 * PxOne>>, <<10 * PxOne, 7 * PxOne>>,
           <<21 * (PxOne \div 2), 13 * PxOne>>}

MouseSet == {<<0, 0>>, <<5 * PxOne, 3 * PxOne>>}

vars == <<capVars, frameVars>>

(***************************************************************************)
(* The capture runs: the calls of ScreenCapture's three functions in any   *)
(* order, against a wall clock that advances on its own.                   *)
(***************************************************************************)
CapNext ==
    \/ Tick /\ UNCHANGED frameVars
    \/ \E fs_ok \in BOOLEAN : begin_capture(fs_ok) /\ UNCHANGED frameVars
    \/ \E s \in 1..MaxSessions, io \in ExportOutcomes :
           save_frame(s, io) /\ UNCHANGED frameVars
    \/ \E s \in 1..MaxSessions : end_capture(s) /\ UNCHANGED frameVars

CaptureInit == CapInit /\ FrameInit /\ demo = "pp"

SpecCapture == CaptureInit /\ [][CapNext]_vars

FramesInit == CapInit /\ FrameInit /\ demo \in {"pp", "pi"}

\* the camera runs of the two demos: the camera and scale keys, one window,
\* one pointer position
CamRes == <<10 * PxOne, 7 * PxOne>>

CamMouse == <<5 * PxOne, 3 * PxOne>>

CamNext ==
    \/ \E ks \in CamKeyCombos : pp_frame(ks, CamRes, CamMouse)
    \/ \E ks \in CamKeyCombos : pi_frame(ks, CamRes, CamMouse)

SpecCamera == FramesInit /\ [][CamNext]_vars

\* the window runs: the scale and toggle keys, every window and pointer of
\* the sets above
CanvasNext ==
    \/ \E ks \in WinKeyCombos, res \in ResSet, mouse \in MouseSet :
           pp_frame(ks, res, mouse)
    \/ \E ks \in WinKeyCombos, res \in ResSet, mouse \in MouseSet :
           pi_frame(ks, res, mouse)

SpecCanvas == FramesInit /\ [][CanvasNext]_vars

(***************************************************************************)
(* The claims about the capture session (SpecCapture).                     *)
(***************************************************************************)

\* C1: once a session that saw only successful save_frame calls is ended,
\* its directory holds exactly the files 0.png .. (N-1).png, N the number of
\* those calls (the session's frame_number).
C1_ExactlyTheSavedFrames ==
    (lastOp.op = "end_capture" /\ ~failed[lastOp.sid]) =>
        FramesIn(sessions[lastOp.sid].dir)
            = 0..(sessions[lastOp.sid].frame_number - 1)

\* C1 holds of a session whose directory no other session shares: it fails
\* only where C6 does.
C1_WithOwnDirectory ==
    (/\ lastOp.op = "end_capture"
     /\ ~failed[lastOp.sid]
     /\ \A s \in SessionIds :
            s # lastOp.sid => sessions[s].dir # sessions[lastOp.sid].dir) =>
        FramesIn(sessions[lastOp.sid].dir)
            = 0..(sessions[lastOp.sid].frame_number - 1)

\* C2: a save_frame on a session that end_capture has made inactive fails
\* with InvalidTransition, creates no file and leaves frame_index as it was.
C2_SaveWhileInactiveRejected ==
    [][(lastOp'.op = "save_frame" /\ lastOp'.was_ended) =>
          /\ lastOp'.result = "InvalidTransition"
          /\ files' = files
          /\ sessions' = sessions]_vars

\* C3: a save_frame whose write fails reports CaptureWriteError, does not
\* increment frame_index, leaves the session running and the files written
\* before untouched.
C3_WriteFailureKeepsIndex ==
    [][(lastOp'.op = "save_frame" /\ lastOp'.io = "fail") =>
          /\ lastOp'.result = "CaptureWriteError"
          /\ sessions' = sessions
          /\ files' = files
          /\ ~crashed']_vars

\* C4: when begin_capture cannot create the session directory it reports
\* CaptureInitError as a value, no session is created, and the program goes on.
C4_InitFailureReported ==
    (lastOp.op = "begin_capture" /\ ~lastOp.fs_ok) =>
        /\ lastOp.result = "CaptureInitError"
        /\ ~crashed

\* C5: end_capture changes neither the file system nor the session's
\* frame_number and directory, is not an error, and a repeated end_capture
\* changes nothing at all: end; end leaves the state of a single end.
C5_EndCaptureNoEffect ==
    [][lastOp'.op = "end_capture" =>
          /\ files' = files
          /\ dirs' = dirs
          /\ sessions' = sessions
          /\ lastOp'.result = "unit"
          /\ ~crashed'
          /\ lastOp'.was_ended =>
                 <<clock, dirs, files, sessions, ended, failed, crashed>>'
                     = <<clock, dirs, files, sessions, ended, failed, crashed>>
      ]_vars

\* C5's case: a second end_capture on a session that has saved frames.
C5_Witness ==
    /\ lastOp.op = "end_capture"
    /\ lastOp.was_ended
    /\ sessions[lastOp.sid].frame_number > 0
    /\ FramesIn(sessions[lastOp.sid].dir) # {}

\* C6: any two sessions have distinct session directories.
C6_DistinctDirectories ==
    \A s1, s2 \in SessionIds :
        s1 # s2 => sessions[s1].dir # sessions[s2].dir

(***************************************************************************)
(* The claims about canvas sizing (SpecCanvas).                            *)
(***************************************************************************)

\* C7: in pp.rs (overscan) canvas_size = floor((res - leftover) / scale) + 1
\* componentwise, and canvas_size * scale is >= res and exceeds it by at
\* most scale.
C7_OverscanCoversWindow ==
    (out.drawn /\ demo = "pp") =>
        \A i \in 1..2 :
            /\ out.canvas_size[i]
                 = PxFloor((out.res[i] - out.leftover_pixels[i]) \div scale)
                   + PxOne
            /\ out.canvas_size[i] * scale >= out.res[i]
            /\ out.canvas_size[i] * scale - out.res[i] <= scale * PxOne

\* C7's case: a window that the scale does not divide, also by a fraction of
\* a pixel, at a scale above 1.
C7_Witness ==
    /\ out.drawn
    /\ demo = "pp"
    /\ scale > 1
    /\ out.leftover_pixels[1] % PxOne # 0
    /\ out.leftover_pixels[2] > 0

C9_BiasInUnitInterval ==
    (out.drawn /\ demo = "pp" /\ out.material) =>
        /\ 0 <= u_sampleProperties[3] /\ u_sampleProperties[3] < F32One
        /\ 0 <= u_sampleProperties[4] /\ u_sampleProperties[4] < F32One

\* C9 amended: the forwarded values are whole numbers of device pixels: the
\* x value lies in [0, scale] and the y value, 1 - diff.y, in [1 - scale, 1].
C9_BiasInDevicePixels ==
    (out.drawn /\ demo = "pp" /\ out.material) =>
        /\ u_sampleProperties[3] % F32One = 0
        /\ 0 <= u_sampleProperties[3]
        /\ u_sampleProperties[3] <= scale * F32One
        /\ u_sampleProperties[4] % F32One = 0
        /\ (1 - scale) * F32One <= u_sampleProperties[4]
        /\ u_sampleProperties[4] <= F32One

\* C9's case: ideal - aligned rounds to 1.0 in f32, so the x value is the
\* whole scale, and the y value is negative.
C9_Witness ==
    /\ out.drawn
    /\ demo = "pp"
    /\ out.material
    /\ u_sampleProperties[3] = scale * F32One
    /\ u_sampleProperties[4] < 0

\* C10 as stated: aligned_offset = round(ideal_offset) componentwise.
C10_AlignedIsRounded ==
    out.drawn =>
        out.camera_offset_pixel_aligned
            = <<F32RoundHalfAway(camera_offset_ideal[1]),
                F32RoundHalfAway(camera_offset_ideal[2])>>

\* C10 amended: aligned_offset is the floor of ideal_offset: the whole
\* number with aligned <= ideal < aligned + 1, componentwise.
C10_AlignedIsFloor ==
    out.drawn =>
        \A i \in 1..2 :
            /\ out.camera_offset_pixel_aligned[i] % F32One = 0
            /\ out.camera_offset_pixel_aligned[i] <= camera_offset_ideal[i]
            /\ camera_offset_ideal[i]
                 < out.camera_offset_pixel_aligned[i] + F32One

\* C10's case: camera moves have left a negative fractional offset on the x
\* axis, where floor and round part, and a positive one on the y axis.
C10_Witness ==
    /\ out.drawn
    /\ freelook
    /\ camera_offset_ideal[1] < 0
    /\ camera_offset_ideal[2] > 0
    /\ out.camera_offset_pixel_aligned[1]
         # F32RoundHalfAway(camera_offset_ideal[1])

\* C11: in every frame, whatever camera moves, resets, freelook toggles and
\* orbit frames came before, aligned_offset is a whole number of virtual
\* pixels componentwise and lies less than 1 virtual pixel from ideal_offset.
C11_AlignedWithinOnePixel ==
    out.drawn =>
        \A i \in 1..2 :
            /\ out.camera_offset_pixel_aligned[i] % F32One = 0
            /\ Abs(camera_offset_ideal[i] - out.camera_offset_pixel_aligned[i])
                 < F32One

\* C11's case: back in freelook after orbit frames and a reset, the camera
\* moved to a fractional offset left of and below the origin.
C11_Witness ==
    /\ out.drawn
    /\ freelook
    /\ camera_angle > 0
    /\ camera_offset_ideal[1] < 0
    /\ camera_offset_ideal[1] % F32One # 0
    /\ camera_offset_ideal[2] > 0
    /\ camera_offset_ideal[2] % F32One # 0
    /\ out.camera_offset_pixel_aligned # camera_offset_ideal

\* the orbit position of the running demo for the angle of n orbit frames
orbit_of(n) == IF demo = "pp" THEN pp_orbit[n + 1] ELSE pi_orbit[n + 1]

\* C12 as stated: a frame in which R is pressed ends with ideal_offset at
\* (0, 0) whatever it was before and whatever the freelook flag is; the angle
\* is as before and freelook changes only by the F key.
C12_ResetAlwaysToOrigin ==
    []["R" \in out'.keys =>
          /\ camera_offset_ideal' = <<0, 0>>
          /\ camera_angle' = camera_angle
          /\ "F" \notin out'.keys => freelook' = freelook]_vars

\* C12 amended: a frame in which R is pressed and that ends in freelook ends
\* with ideal_offset at (0, 0) whatever it was before, and with the angle as
\* before; a frame that ends in orbit mode ends at the orbit position of the
\* angle, the reset overridden, and the angle advances.  The reset changes
\* neither the angle nor freelook: freelook changes exactly when F is pressed.
C12_ResetInFreelook ==
    []["R" \in out'.keys =>
          /\ freelook' =>
                 /\ camera_offset_ideal' = <<0, 0>>
                 /\ camera_angle' = camera_angle
          /\ ~freelook' =>
                 /\ camera_offset_ideal' = orbit_of(camera_angle)
                 /\ camera_angle' = camera_angle + 1
          /\ (freelook' = freelook) <=> ("F" \notin out'.keys)]_vars

\* C12's case: R pressed in the frame that leaves the orbit of pp.rs, whose
\* positions are all away from the origin: the camera is back at (0, 0) and
\* the angle is the one the orbit reached.
C12_Witness ==
    /\ out.drawn
    /\ demo = "pp"
    /\ {"R", "F"} \subseteq out.keys
    /\ freelook
    /\ camera_angle > 0
    /\ camera_offset_ideal = <<0, 0>>

(***************************************************************************)
(* The claims about the pointer and the render target (SpecCanvas).        *)
(***************************************************************************)

\* C13: the pointer mapping of pp.rs subtracts the offset at which the scaled
\* canvas is drawn, which is zero: canvas_pos = (pointer - dest_pos) / scale,
\* so the device pixel of the canvas origin maps to canvas position (0, 0).
C13_PointerMatchesDraw ==
    (out.drawn /\ demo = "pp") =>
        \A i \in 1..2 :
            /\ out.dest_pos[i] = 0
            /\ out.virtual_mouse_pos_exact[i] * scale
                 = out.mouse_position[i] - out.dest_pos[i]

\* C14: at the draw of every frame of pp.rs, the first included and whatever
\* the window is, the render target has exactly the dimensions of the frame's
\* canvas_size; it is replaced only in frames whose resolution or scale
\* differs from the pair recorded at the end of the frame before.
C14_SurfaceMatchesCanvas ==
    [][(out'.drawn /\ demo = "pp") =>
          /\ \A i \in 1..2 : render_targ'[i] * PxOne = out'.canvas_size[i]
          /\ render_targ' # render_targ => out'.res_changed
          /\ out'.res_changed
               <=> <<out'.res, scale'>> # last_res_and_scale]_vars

\* C14 holds of every frame but those of a run that has only seen the empty
\* window at the initial scale, the pair last_res_and_scale starts with.
C14_ExceptInitialPair ==
    [][(out'.drawn /\ demo = "pp") =>
          /\ last_res_and_scale' # <<<<0, 0>>, InitialScale>> =>
                 \A i \in 1..2 : render_targ'[i] * PxOne = out'.canvas_size[i]
          /\ render_targ' # render_targ => out'.res_changed
          /\ out'.res_changed
               <=> <<out'.res, scale'>> # last_res_and_scale]_vars

(***************************************************************************)
(* The claim about the scale keys (SpecCanvas).                            *)
(***************************************************************************)

\* the scale handler of the running demo
scale_keys(sc, ks) ==
    IF demo = "pp" THEN pp_scale_keys(sc, ks) ELSE pi_scale_keys(sc, ks)

ScaleKeys == {"Equal", "Minus"}

\* C15: from the initial scale 4 the scale stays >= 1 through any sequence of
\* Equal and Minus presses, and at every scale so reached the handler behaves
\* as follows on each set of scale keys: Equal raises the scale, also when
\* Minus is pressed with it; Minus alone lowers a scale above 1, not below 1,
\* and is ignored at scale 1; without either key the scale stays.
C15_ScaleAtLeastOne ==
    [][out'.drawn =>
          /\ scale >= 1 /\ scale' >= 1
          /\ \E ks \in SUBSET ScaleKeys : scale' = scale_keys(scale, ks)
          /\ \A ks \in SUBSET ScaleKeys :
                 LET n == scale_keys(scale, ks)
                 IN  /\ n >= 1
                     /\ "Equal" \in ks =>
                            n = IF demo = "pi" /\ scale < 4 THEN scale + 1
                                ELSE scale * 2
                     /\ ks = {"Minus"} =>
                            IF scale > 1 THEN n < scale ELSE n = scale
                     /\ ks = {} => n = scale]_vars

\* C15's case: the demo has been scaled down to 1, the scale at which a
\* further Minus is to be ignored, and a frame has run there.
C15_Witness ==
    /\ out.drawn
    /\ scale = 1
    /\ last_res_and_scale[2] = 1
    /\ ~out.res_changed

=============================================================================
